---- MODULE Spec2Model ----
(***************************************************************************)
(* Model of ccs (claude-config-switch): the two JSON files under ~/.claude *)
(* (apiConfigs.json, settings.json) and the interactive commands that read *)
(* and write them: list, add, remove and the index-based setConfig; and    *)
(* the health command, which probes the base URLs of the list.             *)
(*                                                                         *)
(* Representation.                                                         *)
(*  - A JavaScript string is a sequence of one-character strings, so that  *)
(*    String.prototype.trim is computed and "" is the empty sequence.      *)
(*  - An optional property of a JSON object is a sequence of length 0      *)
(*    (the key is absent / its value is undefined) or 1 (the value).       *)
(*    JSON.stringify drops keys whose value is undefined, so "assigned     *)
(*    undefined" and "absent" are the same document on disk.               *)
(*  - One ccs process runs at a time (one command per invocation); pc is   *)
(*    the prompt the running process is waiting on, "shell" when none is.  *)
(***************************************************************************)
EXTENDS Integers, Sequences, FiniteSets, TLC

VARIABLES
    apiConfigsFile,   \* parsed content of ~/.claude/apiConfigs.json (<<>> when absent)
    settingsFile,     \* <<>> when ~/.claude/settings.json is absent, <<doc>> otherwise
    settingsTorn,     \* TRUE when settings.json holds a truncated (unparseable) text
    pc,               \* prompt the running command waits on, or "shell"
    apiConfigs,       \* the array the running command read (closure variable)
    currentConfig,    \* getCurrentConfig() result kept by the running command
    selectedIndex,    \* 0-based index chosen in the running command, -1 when none
    newConfig,        \* addConfig: the object built from the answers
    out,              \* last message the command printed
    exitCode,         \* exit status of the last finished command
    probes            \* health: one probe sequence per URL being probed

vars == <<apiConfigsFile, settingsFile, settingsTorn, pc, apiConfigs,
          currentConfig, selectedIndex, newConfig, out, exitCode, probes>>

----------------------------------------------------------------------------
(* Bounds *)

MaxInitLen == 2     \* longest configuration list an initial state holds
MaxConfigs == 3     \* addConfig is explored while the list is shorter than this

----------------------------------------------------------------------------
(* Values *)

None == <<>>
Some(v) == <<v>>
Has(o) == o # <<>>

\* JavaScript truthiness of an optional string property: defined and not "".
Truthy(o) == o # <<>> /\ o[1] # <<>>

IsSpace(c) == c = " "

RECURSIVE TrimStart(_)
TrimStart(s) ==
    IF s = <<>> THEN <<>>
    ELSE IF IsSpace(Head(s)) THEN TrimStart(Tail(s)) ELSE s

RECURSIVE TrimEnd(_)
TrimEnd(s) ==
    IF s = <<>> THEN <<>>
    ELSE IF IsSpace(s[Len(s)]) THEN TrimEnd(SubSeq(s, 1, Len(s) - 1)) ELSE s

\* String.prototype.trim
trim(s) == TrimEnd(TrimStart(s))

EmptyEnv ==
    [ANTHROPIC_AUTH_TOKEN |-> None, ANTHROPIC_BASE_URL |-> None,
     CLAUDE_CODE_DISABLE_NONESSENTIAL_TRAFFIC |-> None]

MkEnv(tok, url, extra) ==
    [ANTHROPIC_AUTH_TOKEN |-> tok, ANTHROPIC_BASE_URL |-> url,
     CLAUDE_CODE_DISABLE_NONESSENTIAL_TRAFFIC |-> extra]

EmptyPermissions == [allow |-> <<>>, deny |-> <<>>]

\* An element of apiConfigs.json: nested shape { name, config: { env, ... } }
NestedConfig(name, env, model) ==
    [name |-> name,
     config |-> Some([env |-> env, permissions |-> Some(EmptyPermissions),
                      model |-> model]),
     authToken |-> None, baseUrl |-> None]

\* An element of apiConfigs.json: flat shape { name, authToken, baseUrl }
FlatConfig(name, tok, url) ==
    [name |-> name, config |-> None, authToken |-> tok, baseUrl |-> url]

\* A settings.json document: the three managed fields and the user's own keys.
MkSettings(name, env, model, hooks) ==
    [_configName |-> name, env |-> env, model |-> model, hooks |-> hooks]

----------------------------------------------------------------------------
(* Config Store: reads *)

\* readSettings(): { env: {} } when the file is absent or JSON.parse throws,
\* the parsed document otherwise.
DefaultSettings == MkSettings(None, Some(EmptyEnv), None, None)

readSettings(file, torn) ==
    IF file = <<>> THEN DefaultSettings
    ELSE IF torn THEN DefaultSettings
    ELSE file[1]

\* readApiConfigs(): the parsed array, [] when the file is absent.
readApiConfigs(file) == file

\* Object.keys(settings).length === 0
IsEmptyObject(settings) ==
    /\ ~Has(settings._configName)
    /\ ~Has(settings.env)
    /\ ~Has(settings.model)
    /\ ~Has(settings.hooks)

Min(S) == CHOOSE i \in S : \A j \in S : i <= j

----------------------------------------------------------------------------
(* Active-config resolver *)

\* config => config.name === settings._configName
nameMatches(config, settings) == config.name = settings._configName

\* The callback of the fallback find(): compares the two credentials of the
\* settings' env with those under config.config.env.
valueMatches(config, settings) ==
    IF ~Has(config.config) THEN FALSE
    ELSE
        LET currentEnv == IF Has(settings.env) THEN settings.env[1] ELSE EmptyEnv
            configEnv  == IF Has(config.config[1].env)
                          THEN config.config[1].env[1] ELSE EmptyEnv
        IN  /\ currentEnv.ANTHROPIC_BASE_URL = configEnv.ANTHROPIC_BASE_URL
            /\ currentEnv.ANTHROPIC_AUTH_TOKEN = configEnv.ANTHROPIC_AUTH_TOKEN

\* Mutant: the credential match is tried before the name match.
getCurrentConfig_valueFirst(file, torn, configsFile) ==
    LET settings == readSettings(file, torn)
        configs  == readApiConfigs(configsFile)
        byName   == {i \in 1..Len(configs) : nameMatches(configs[i], settings)}
        byValue  == {i \in 1..Len(configs) : valueMatches(configs[i], settings)}
    IN  IF IsEmptyObject(settings) THEN None
        ELSE IF byValue # {} THEN Some(configs[Min(byValue)])
        ELSE IF Truthy(settings._configName) /\ byName # {}
             THEN Some(configs[Min(byName)])
        ELSE None

\* getCurrentConfig(): None is null.
getCurrentConfig(file, torn, configsFile) ==
    LET settings == readSettings(file, torn)
        configs  == readApiConfigs(configsFile)
        byName   == {i \in 1..Len(configs) : nameMatches(configs[i], settings)}
        byValue  == {i \in 1..Len(configs) : valueMatches(configs[i], settings)}
    IN  IF IsEmptyObject(settings) THEN None
        ELSE IF Truthy(settings._configName) /\ byName # {}
             THEN Some(configs[Min(byName)])
        ELSE IF byValue # {} THEN Some(configs[Min(byValue)])
        ELSE None

----------------------------------------------------------------------------
(* Settings merger *)

\* The credential extraction of saveSettingsPreservingHooks: ok = FALSE is
\* the throw of "invalid configuration format".
extractCredentials(selectedConfig) ==
    IF Has(selectedConfig.config) /\ Has(selectedConfig.config[1].env)
    THEN [ok |-> TRUE,
          authToken |-> selectedConfig.config[1].env[1].ANTHROPIC_AUTH_TOKEN,
          baseUrl |-> selectedConfig.config[1].env[1].ANTHROPIC_BASE_URL]
    ELSE IF Truthy(selectedConfig.authToken) /\ Truthy(selectedConfig.baseUrl)
    THEN [ok |-> TRUE,
          authToken |-> selectedConfig.authToken,
          baseUrl |-> selectedConfig.baseUrl]
    ELSE [ok |-> FALSE, authToken |-> None, baseUrl |-> None]

\* Mutant: the credentials are assigned but _configName is left as it was.
mergeSettings_keepName(currentSettings, selectedConfig) ==
    LET env   == IF Has(currentSettings.env) THEN currentSettings.env[1] ELSE EmptyEnv
        creds == extractCredentials(selectedConfig)
    IN  [currentSettings EXCEPT
            !.env = Some([env EXCEPT !.ANTHROPIC_AUTH_TOKEN = creds.authToken,
                                     !.ANTHROPIC_BASE_URL = creds.baseUrl])]

\* Mutant: the document is rebuilt from the selected configuration instead
\* of being merged into the current settings.
mergeSettings_rebuild(currentSettings, selectedConfig) ==
    MkSettings(selectedConfig.name,
               Some(MkEnv(extractCredentials(selectedConfig).authToken,
                          extractCredentials(selectedConfig).baseUrl, None)),
               None, None)

\* The document saveSettingsPreservingHooks serialises: the current settings
\* with the three managed fields assigned.
mergeSettings(currentSettings, selectedConfig) ==
    LET env   == IF Has(currentSettings.env) THEN currentSettings.env[1] ELSE EmptyEnv
        creds == extractCredentials(selectedConfig)
    IN  [currentSettings EXCEPT
            !._configName = selectedConfig.name,
            !.env = Some([env EXCEPT !.ANTHROPIC_AUTH_TOKEN = creds.authToken,
                                     !.ANTHROPIC_BASE_URL = creds.baseUrl])]

\* saveSettingsPreservingHooks(selectedConfig): the settings file afterwards
\* (unchanged when the extraction throws) and whether process.exit(1) ran.
saveSettingsPreservingHooks(file, torn, selectedConfig) ==
    LET currentSettings == readSettings(file, torn)
    IN  IF extractCredentials(selectedConfig).ok
        THEN [file |-> Some(mergeSettings(currentSettings, selectedConfig)),
              torn |-> FALSE, exit1 |-> FALSE]
        ELSE [file |-> file, torn |-> torn, exit1 |-> TRUE]

----------------------------------------------------------------------------
(* The files an initial state may hold.  Both files are opened in an editor *)
(* by "ccs o api" / "ccs o setting", so an initial state holds any shape    *)
(* the readers accept, not only what addConfig builds.                      *)

NameLower == <<"a">>
NameUpper == <<"A">>
TokT == <<"t">>
TokS == <<"s">>
UrlU == <<"u">>
One == <<"1">>
Opus == <<"o", "p", "u", "s">>
Hooks == [x |-> 1]

\* What addConfig builds (also the shape of getApiConfigTemplate).
BuiltConfig(name, tok, url, model) ==
    NestedConfig(Some(name), Some(MkEnv(Some(tok), Some(url), Some(One))), model)

ConfigUniverse ==
    { BuiltConfig(NameLower, TokT, UrlU, None),
      BuiltConfig(NameLower, TokS, UrlU, None),                 \* same name again
      BuiltConfig(NameUpper, TokS, UrlU, None),
      BuiltConfig(<<>>, TokT, UrlU, None),                      \* name ""
      NestedConfig(Some(NameLower), Some(EmptyEnv), None),      \* config.env = {}
      NestedConfig(Some(NameLower), None, None),                \* no config.env
      FlatConfig(Some(NameLower), Some(TokT), Some(UrlU)) }     \* flat shape

RECURSIVE SeqsUpTo(_, _)
SeqsUpTo(S, n) ==
    IF n = 0 THEN {<<>>}
    ELSE LET shorter == SeqsUpTo(S, n - 1)
         IN  shorter \cup {Append(q, e) : q \in shorter, e \in S}

SettingsUniverse ==
    {MkSettings(n, e, Some(Opus), Some(Hooks)) :
        n \in {None, Some(<<>>), Some(NameLower), Some(NameUpper)},
        e \in {None,
               Some(MkEnv(Some(TokT), Some(UrlU), Some(One))),
               Some(MkEnv(Some(TokS), Some(UrlU), None))}}
    \cup
    { MkSettings(None, None, None, None),                                  \* {}
      MkSettings(Some(NameLower), Some(EmptyEnv), Some(Opus), Some(Hooks)) } \* env: {}

\* Answers typed at addConfig's prompts.
NameInputs == {<<>>, <<" ">>, NameLower, <<" ", "a">>, NameUpper}
UrlInputs == {<<" ">>, UrlU}
TokenInputs == {<<>>, TokT, TokS}
ModelInputs == {<<>>, <<"m">>}

NoLocals ==
    /\ apiConfigs' = <<>>
    /\ currentConfig' = None
    /\ selectedIndex' = -1
    /\ newConfig' = None

InitProcess ==
    /\ settingsTorn = FALSE
    /\ pc = "shell"
    /\ apiConfigs = <<>>
    /\ currentConfig = None
    /\ selectedIndex = -1
    /\ newConfig = None
    /\ out = "none"
    /\ exitCode = 0
    /\ probes = <<>>

Init ==
    /\ apiConfigsFile \in SeqsUpTo(ConfigUniverse, MaxInitLen)
    /\ settingsFile \in {None} \cup {Some(d) : d \in SettingsUniverse}
    /\ InitProcess

\* A fresh installation: no apiConfigs.json, no settings.json.
InitFresh ==
    /\ apiConfigsFile = <<>>
    /\ settingsFile = None
    /\ InitProcess

----------------------------------------------------------------------------
(* Commands *)

\* The process ends: back to the shell with a message and an exit status.
Exit(message, code) ==
    /\ pc' = "shell"
    /\ out' = message
    /\ exitCode' = code
    /\ NoLocals

\* The menu lines read config.name.length and config.config.env.X of every
\* entry; an entry without them throws a TypeError out of the command.
Renderable(configs) ==
    \A i \in 1..Len(configs) :
        /\ Has(configs[i].name)
        /\ Has(configs[i].config)
        /\ Has(configs[i].config[1].env)

\* Mutant: the selected object is compared with the current name, which is
\* never equal.
isActive_never(current, config) == Has(current) /\ FALSE

\* currentConfig && selectedConfig.name === currentConfig.name
isActive(current, config) == Has(current) /\ config.name = current[1].name

\* listAndSelectConfig(), up to the menu prompt.
listAndSelectConfig ==
    /\ pc = "shell"
    /\ LET configs == readApiConfigs(apiConfigsFile)
           current == getCurrentConfig(settingsFile, settingsTorn, apiConfigsFile)
       IN  IF Len(configs) = 0 THEN Exit("no_configs", 0)
           ELSE IF ~Renderable(configs) THEN Exit("TypeError", 1)
           ELSE /\ pc' = "list_menu"
                /\ apiConfigs' = configs
                /\ currentConfig' = current
                /\ out' = IF Has(current) THEN "current_shown" ELSE "none"
                /\ UNCHANGED <<selectedIndex, newConfig, exitCode>>
    /\ UNCHANGED <<apiConfigsFile, settingsFile, settingsTorn>>
    /\ UNCHANGED probes

\* Both selection paths end the same way: "already active" or the
\* confirmation prompt of processSelectedConfig.
selectConfig(index) ==
    IF isActive(currentConfig, apiConfigs[index + 1])
    THEN Exit("already_active", 0)
    ELSE /\ pc' = "switch_confirm"
         /\ selectedIndex' = index
         /\ out' = "selected_shown"
         /\ UNCHANGED <<apiConfigs, currentConfig, newConfig, exitCode>>

\* The menu prompt resolves with the index of a configuration.
listMenuPick ==
    /\ pc = "list_menu"
    /\ \E index \in 0..(Len(apiConfigs) - 1) : selectConfig(index)
    /\ UNCHANGED <<apiConfigsFile, settingsFile, settingsTorn>>
    /\ UNCHANGED probes

\* The menu prompt resolves with 'input': ask for an ordinal.
listMenuInput ==
    /\ pc = "list_menu"
    /\ pc' = "list_ordinal"
    /\ out' = "ask_ordinal"
    /\ UNCHANGED <<apiConfigsFile, settingsFile, settingsTorn, apiConfigs,
                   currentConfig, selectedIndex, newConfig, exitCode>>
    /\ UNCHANGED probes

\* rl.question callback: index = parseInt(answer, 10), NaN when not a number.
listOrdinal ==
    /\ pc = "list_ordinal"
    /\ \E isNaN \in BOOLEAN, index \in 0..(Len(apiConfigs) + 1) :
          IF isNaN \/ index < 1 \/ index > Len(apiConfigs)
          THEN Exit("invalid_ordinal", 0)
          ELSE selectConfig(index - 1)
    /\ UNCHANGED <<apiConfigsFile, settingsFile, settingsTorn>>
    /\ UNCHANGED probes

\* The confirm handler of processSelectedConfig: on yes,
\* saveSettingsPreservingHooks(selectedConfig), the details of the selected
\* configuration, then the prompt that offers to run claude.
processSelectedConfig ==
    /\ pc = "switch_confirm"
    /\ \E confirm \in BOOLEAN :
          IF confirm
          THEN LET r == saveSettingsPreservingHooks(settingsFile, settingsTorn,
                                                    apiConfigs[selectedIndex + 1])
               IN  /\ settingsFile' = r.file
                   /\ settingsTorn' = r.torn
                   /\ IF r.exit1 THEN Exit("save_failed", 1)
                      ELSE /\ pc' = "run_prompt"
                           /\ out' = "switched"
                           /\ UNCHANGED <<apiConfigs, currentConfig, selectedIndex,
                                          newConfig, exitCode>>
          ELSE /\ Exit("cancelled", 0)
               /\ UNCHANGED <<settingsFile, settingsTorn>>
    /\ UNCHANGED apiConfigsFile
    /\ UNCHANGED probes

\* The handler of the "run claude here?" prompt; the spawned process is not
\* part of the model.
runClaude ==
    /\ pc = "run_prompt"
    /\ \E run \in BOOLEAN :
          Exit(IF run THEN "claude_started" ELSE "run_later", 0)
    /\ UNCHANGED <<apiConfigsFile, settingsFile, settingsTorn>>
    /\ UNCHANGED probes

\* setConfig(index), up to its confirmation prompt: the function behind the
\* quick-start guide's "ccs use <n>".  The source keeps the function but
\* registers no command for it; it is the one caller that hands
\* saveSettingsPreservingHooks an entry the menus could not render.
setConfig ==
    /\ pc = "shell"
    /\ LET configs == readApiConfigs(apiConfigsFile)
       IN  IF Len(configs) = 0 THEN Exit("no_configs", 0)
           ELSE \E index \in 0..(Len(configs) + 1) :
                  IF index < 1 \/ index > Len(configs)
                  THEN Exit("invalid_index", 0)
                  ELSE /\ pc' = "set_confirm"
                       /\ apiConfigs' = configs
                       /\ selectedIndex' = index - 1
                       /\ out' = "selected_shown"
                       /\ UNCHANGED <<currentConfig, newConfig, exitCode>>
    /\ UNCHANGED <<apiConfigsFile, settingsFile, settingsTorn>>
    /\ UNCHANGED probes

\* The confirm handler of setConfig.
setConfigConfirm ==
    /\ pc = "set_confirm"
    /\ \E confirm \in BOOLEAN :
          IF confirm
          THEN LET r == saveSettingsPreservingHooks(settingsFile, settingsTorn,
                                                    apiConfigs[selectedIndex + 1])
               IN  /\ settingsFile' = r.file
                   /\ settingsTorn' = r.torn
                   /\ IF r.exit1 THEN Exit("save_failed", 1) ELSE Exit("switched", 0)
          ELSE /\ Exit("cancelled", 0)
               /\ UNCHANGED <<settingsFile, settingsTorn>>
    /\ UNCHANGED apiConfigsFile
    /\ UNCHANGED probes

\* Mutant: the existing names are compared with the untrimmed input.
validateName_untrimmed(input, configs) ==
    IF trim(input) = <<>> THEN "name_empty"
    ELSE IF \E i \in 1..Len(configs) : configs[i].name = Some(input)
         THEN "name_exists"
    ELSE "ok"

\* validate of the name prompt: "ok", or the reason of the rejection.
validateName(input, configs) ==
    IF trim(input) = <<>> THEN "name_empty"
    ELSE IF \E i \in 1..Len(configs) : configs[i].name = Some(trim(input))
         THEN "name_exists"
    ELSE "ok"

\* validate of the baseUrl and authToken prompts.
validateRequired(input) == trim(input) # <<>>

\* addConfig(): the wizard starts.
addConfig ==
    /\ pc = "shell"
    /\ Len(apiConfigsFile) < MaxConfigs
    /\ pc' = "add_prompt"
    /\ out' = "ask_name"
    /\ NoLocals
    /\ UNCHANGED <<apiConfigsFile, settingsFile, settingsTorn, exitCode>>
    /\ UNCHANGED probes

\* A validator rejects the typed answer: the message is shown and the
\* prompt stays.
addReject ==
    /\ pc = "add_prompt"
    /\ \/ \E input \in NameInputs :
            /\ validateName(input, readApiConfigs(apiConfigsFile)) # "ok"
            /\ out' = validateName(input, readApiConfigs(apiConfigsFile))
       \/ \E input \in UrlInputs :
            /\ ~validateRequired(input)
            /\ out' = "baseUrl_empty"
       \/ \E input \in TokenInputs :
            /\ ~validateRequired(input)
            /\ out' = "authToken_empty"
    /\ UNCHANGED <<apiConfigsFile, settingsFile, settingsTorn, pc, apiConfigs,
                   currentConfig, selectedIndex, newConfig, exitCode>>
    /\ UNCHANGED probes

\* The object the wizard builds from the validated answers.
buildConfig(answers) ==
    NestedConfig(Some(trim(answers.name)),
                 Some(MkEnv(Some(trim(answers.authToken)),
                            Some(trim(answers.baseUrl)), Some(One))),
                 IF trim(answers.model) # <<>> THEN Some(trim(answers.model))
                 ELSE None)

\* The four prompts resolve with answers every validator accepted.
addAnswers ==
    /\ pc = "add_prompt"
    /\ \E name \in NameInputs, baseUrl \in UrlInputs,
          authToken \in TokenInputs, model \in ModelInputs :
          /\ validateName(name, readApiConfigs(apiConfigsFile)) = "ok"
          /\ validateRequired(baseUrl)
          /\ validateRequired(authToken)
          /\ newConfig' = Some(buildConfig([name |-> name, baseUrl |-> baseUrl,
                                            authToken |-> authToken, model |-> model]))
    /\ pc' = "add_confirm"
    /\ out' = "preview"
    /\ UNCHANGED <<apiConfigsFile, settingsFile, settingsTorn, apiConfigs,
                   currentConfig, selectedIndex, exitCode>>
    /\ UNCHANGED probes

\* The confirm handler of addConfig: on yes, re-read the list, push, save.
addConfirm ==
    /\ pc = "add_confirm"
    /\ \E confirm \in BOOLEAN :
          IF confirm
          THEN /\ apiConfigsFile' = Append(readApiConfigs(apiConfigsFile), newConfig[1])
               /\ Exit("added", 0)
          ELSE /\ UNCHANGED apiConfigsFile
               /\ Exit("cancelled", 0)
    /\ UNCHANGED <<settingsFile, settingsTorn>>
    /\ UNCHANGED probes

\* removeConfig(), up to the menu prompt.
removeConfig ==
    /\ pc = "shell"
    /\ LET configs == readApiConfigs(apiConfigsFile)
           current == getCurrentConfig(settingsFile, settingsTorn, apiConfigsFile)
       IN  IF Len(configs) = 0 THEN Exit("no_configs", 0)
           ELSE IF ~Renderable(configs) THEN Exit("TypeError", 1)
           ELSE /\ pc' = "remove_menu"
                /\ apiConfigs' = configs
                /\ currentConfig' = current
                /\ out' = "ask_remove"
                /\ UNCHANGED <<selectedIndex, newConfig, exitCode>>
    /\ UNCHANGED <<apiConfigsFile, settingsFile, settingsTorn>>
    /\ UNCHANGED probes

\* The menu prompt of removeConfig resolves with an index.
removeMenuPick ==
    /\ pc = "remove_menu"
    /\ \E index \in 0..(Len(apiConfigs) - 1) :
          /\ selectedIndex' = index
          /\ out' = IF isActive(currentConfig, apiConfigs[index + 1])
                    THEN "warn_removing_current" ELSE "selected_shown"
    /\ pc' = "remove_confirm"
    /\ UNCHANGED <<apiConfigsFile, settingsFile, settingsTorn, apiConfigs,
                   currentConfig, newConfig, exitCode>>
    /\ UNCHANGED probes

\* Mutant: the 0-based index is used as a 1-based ordinal.
splice_ordinal(array, index) ==
    SubSeq(array, 1, index - 1) \o SubSeq(array, index + 1, Len(array))

\* Array.prototype.splice(index, 1) on a 0-based index.
splice(array, index) ==
    SubSeq(array, 1, index) \o SubSeq(array, index + 2, Len(array))

\* The confirm handler of removeConfig: on yes, splice and save.
removeConfirm ==
    /\ pc = "remove_confirm"
    /\ \E confirm \in BOOLEAN :
          IF confirm
          THEN /\ apiConfigsFile' = splice(apiConfigs, selectedIndex)
               /\ IF /\ isActive(currentConfig, apiConfigs[selectedIndex + 1])
                     /\ Len(splice(apiConfigs, selectedIndex)) > 0
                  THEN Exit("removed_current", 0)   \* with the hint to switch
                  ELSE Exit("removed", 0)
          ELSE /\ UNCHANGED apiConfigsFile
               /\ Exit("cancelled", 0)
    /\ UNCHANGED <<settingsFile, settingsTorn>>
    /\ UNCHANGED probes

----------------------------------------------------------------------------
(* Specifications *)

Next ==
    \/ listAndSelectConfig
    \/ listMenuPick
    \/ listMenuInput
    \/ listOrdinal
    \/ processSelectedConfig
    \/ runClaude
    \/ setConfig
    \/ setConfigConfirm
    \/ addConfig
    \/ addReject
    \/ addAnswers
    \/ addConfirm
    \/ removeConfig
    \/ removeMenuPick
    \/ removeConfirm

\* Any files, every command.
Spec == Init /\ [][Next]_vars

\* A fresh installation, every command.
SpecFresh == InitFresh /\ [][Next]_vars

\* fs.writeFileSync(SETTINGS_FILE, text) writes in place: it opens the file
\* with flag 'w' (which truncates it) and then writes the text.  When the
\* open fails the file is untouched; when a write fails after the open (disk
\* full, I/O error) the file keeps a truncated text.  Either way the catch
\* block prints the error and calls process.exit(1).
writeFileSyncFails ==
    /\ pc \in {"switch_confirm", "set_confirm"}
    /\ extractCredentials(apiConfigs[selectedIndex + 1]).ok
    /\ \E truncated \in BOOLEAN :
          IF truncated
          THEN /\ settingsFile' =
                    Some(mergeSettings(readSettings(settingsFile, settingsTorn),
                                       apiConfigs[selectedIndex + 1]))
               /\ settingsTorn' = TRUE
          ELSE UNCHANGED <<settingsFile, settingsTorn>>
    /\ Exit("save_failed", 1)
    /\ UNCHANGED apiConfigsFile
    /\ UNCHANGED probes

NextIO ==
    \/ Next
    \/ writeFileSyncFails

\* Any files, every command, and writes of settings.json that may fail.
SpecIO == Init /\ [][NextIO]_vars

----------------------------------------------------------------------------
(* Health Prober.  The source registers the command with                    *)
(* health.registerHealthCommands(program); the module ./health itself is    *)
(* modelled from its contract: probeAll(configs) -> results.  The command   *)
(* reads apiConfigs.json and writes no file, so it is explored on its own.  *)

UrlV == <<"v">>

\* The fixed ordered list of endpoint suffixes tried for one base URL.
Endpoints == <<"models", "chat", "health">>

\* What one HTTP attempt can come back with: a status line, a network-level
\* failure (connection refused, DNS, TLS), or no response within the timeout.
Outcomes ==
    { [kind |-> "status", status |-> 200],
      [kind |-> "status", status |-> 404],
      [kind |-> "status", status |-> 500],
      [kind |-> "network", status |-> 0],
      [kind |-> "timeout", status |-> 0] }

\* Classification of one attempt: the server responded with 2xx or 4xx.
reachable(outcome) ==
    /\ outcome.kind = "status"
    /\ outcome.status \in 200..299 \cup 400..499

\* The base URL of an entry, from either accepted shape.
baseUrlOf(config) == extractCredentials(config).baseUrl

\* Mutant: every entry is probed, shared URLs included.
dedupe_none(urls) == urls

\* The distinct URLs of a list, each at the place of its first occurrence.
dedupe(urls) ==
    LET firsts  == {i \in 1..Len(urls) : \A j \in 1..(i - 1) : urls[j] # urls[i]}
        rank(i) == Cardinality({j \in firsts : j <= i})
    IN  [k \in 1..Cardinality(firsts) |-> urls[CHOOSE i \in firsts : rank(i) = k]]

\* One more attempt of a probe sequence: the sequence ends reachable at the
\* first attempt classified reachable, unhealthy when the last endpoint has
\* failed too, and goes on to the next endpoint otherwise.
attempt(probe, outcome) ==
    LET log == Append(probe.attempts, outcome)
    IN  [probe EXCEPT
            !.attempts = log,
            !.status = IF reachable(outcome) THEN "reachable"
                       ELSE IF Len(log) = Len(Endpoints) THEN "unhealthy"
                       ELSE "pending"]

\* "ccs health": probeAll(configs) deduplicates by baseUrl and starts one
\* probe sequence per distinct URL.
probeAll ==
    /\ pc = "shell"
    /\ LET configs == readApiConfigs(apiConfigsFile)
           urls    == dedupe([i \in 1..Len(configs) |-> baseUrlOf(configs[i])])
       IN  /\ apiConfigs' = configs
           /\ probes' = [k \in 1..Len(urls) |->
                           [baseUrl |-> urls[k], attempts |-> <<>>, status |-> "pending"]]
    /\ pc' = "health_probe"
    /\ out' = "probing"
    /\ UNCHANGED <<apiConfigsFile, settingsFile, settingsTorn, currentConfig,
                   selectedIndex, newConfig, exitCode>>

\* One HTTP attempt of one pending sequence comes back.  The sequences of
\* distinct URLs are independent, so any pending one may be the next.
probeAttempt ==
    /\ pc = "health_probe"
    /\ \E k \in 1..Len(probes), outcome \in Outcomes :
          /\ probes[k].status = "pending"
          /\ probes' = [probes EXCEPT ![k] = attempt(probes[k], outcome)]
    /\ UNCHANGED <<apiConfigsFile, settingsFile, settingsTorn, pc, apiConfigs,
                   currentConfig, selectedIndex, newConfig, out, exitCode>>

\* Every sequence has ended: the table is printed and the process ends.
healthPrint ==
    /\ pc = "health_probe"
    /\ \A k \in 1..Len(probes) : probes[k].status # "pending"
    /\ probes' = <<>>
    /\ Exit("health_table", 0)
    /\ UNCHANGED <<apiConfigsFile, settingsFile, settingsTorn>>

HealthConfigs ==
    { BuiltConfig(NameLower, TokT, UrlU, None),
      BuiltConfig(NameUpper, TokS, UrlU, None),                 \* shares a URL
      FlatConfig(Some(NameUpper), Some(TokS), Some(UrlV)) }

InitHealth ==
    /\ apiConfigsFile \in SeqsUpTo(HealthConfigs, MaxConfigs)
    /\ settingsFile = None
    /\ InitProcess

NextHealth ==
    \/ probeAll
    \/ probeAttempt
    \/ healthPrint

\* Any list of probe-able entries, the health command.
SpecHealth == InitHealth /\ [][NextHealth]_vars

TypeOK ==
    /\ pc \in {"shell", "list_menu", "list_ordinal", "switch_confirm", "run_prompt",
               "set_confirm",
               "add_prompt", "add_confirm", "remove_menu", "remove_confirm",
               "health_probe"}
    /\ settingsTorn \in BOOLEAN
    /\ exitCode \in {0, 1}
    /\ Len(settingsFile) <= 1
    /\ selectedIndex \in -1..(Len(apiConfigs) - 1)

----------------------------------------------------------------------------
(* Properties *)

\* The settings document on disk; an absent file holds no key.
Doc(file) == IF file = <<>> THEN MkSettings(None, None, None, None) ELSE file[1]

EnvOf(doc) == IF Has(doc.env) THEN doc.env[1] ELSE EmptyEnv

\* Every key other than _configName, env.ANTHROPIC_AUTH_TOKEN and
\* env.ANTHROPIC_BASE_URL has the same value in both documents.
UserFieldsEqual(before, after) ==
    /\ before.model = after.model
    /\ before.hooks = after.hooks
    /\ EnvOf(before).CLAUDE_CODE_DISABLE_NONESSENTIAL_TRAFFIC =
       EnvOf(after).CLAUDE_CODE_DISABLE_NONESSENTIAL_TRAFFIC

\* What the property below requires of one step.
C1_SwitchChangesOnlyManagedFields_Step ==
    settingsFile' # settingsFile =>
       UserFieldsEqual(Doc(settingsFile), Doc(settingsFile'))

\* C1: every step that writes settings.json (a confirmed switch to any
\* configuration, from any settings document) leaves every key other than
\* the three managed fields with the value it had before the write.
C1_SwitchChangesOnlyManagedFields == [][C1_SwitchChangesOnlyManagedFields_Step]_vars

\* A switch through the list command has just been written over a document
\* that holds user fields at the top level and under env.
C1_Witness ==
    /\ pc = "run_prompt"
    /\ out = "switched"
    /\ Has(currentConfig)
    /\ currentConfig[1].name # apiConfigs[selectedIndex + 1].name
    /\ Doc(settingsFile)._configName = apiConfigs[selectedIndex + 1].name
    /\ Doc(settingsFile).model = Some(Opus)
    /\ Doc(settingsFile).hooks = Some(Hooks)
    /\ EnvOf(Doc(settingsFile)).CLAUDE_CODE_DISABLE_NONESSENTIAL_TRAFFIC = Some(One)

\* The running command has called getCurrentConfig() on the files as they
\* are now and keeps the result in currentConfig.
Resolved == pc \in {"list_menu", "remove_menu"}

\* Indexes of the entries whose name is the settings' _configName.
Named(configs, settings) ==
    {i \in 1..Len(configs) : configs[i].name = settings._configName}

\* C2 as stated: whenever the settings document has a _configName and the
\* list holds an entry with that name, getCurrentConfig returns the first
\* such entry.
C2_AnyNameMatchWins ==
    (/\ Resolved
     /\ Has(Doc(settingsFile)._configName)
     /\ Named(apiConfigs, Doc(settingsFile)) # {})
    => currentConfig = Some(apiConfigs[Min(Named(apiConfigs, Doc(settingsFile)))])

\* C2 (amended): whenever the settings document has a non-empty _configName
\* and the list holds an entry with that name, getCurrentConfig returns the
\* first such entry, whatever the credentials of the settings are.
C2_NameMatchWins ==
    (/\ Resolved
     /\ Truthy(Doc(settingsFile)._configName)
     /\ Named(apiConfigs, Doc(settingsFile)) # {})
    => currentConfig = Some(apiConfigs[Min(Named(apiConfigs, Doc(settingsFile)))])

\* The name match was returned although its credentials differ from the
\* settings' and another entry's credentials equal them.
C2_Witness ==
    /\ pc = "list_menu"
    /\ Truthy(Doc(settingsFile)._configName)
    /\ Has(currentConfig)
    /\ currentConfig[1].name = Doc(settingsFile)._configName
    /\ ~valueMatches(currentConfig[1], Doc(settingsFile))
    /\ \E j \in 1..Len(apiConfigs) :
          /\ valueMatches(apiConfigs[j], Doc(settingsFile))
          /\ apiConfigs[j].name # Doc(settingsFile)._configName

\* The configuration holds, in the nested or in the flat shape, both an
\* authToken and a baseUrl, and they equal the settings' credentials.
CredentialsEqual(config, settings) ==
    LET creds == extractCredentials(config)
    IN  /\ Has(creds.authToken)
        /\ Has(creds.baseUrl)
        /\ creds.authToken = EnvOf(settings).ANTHROPIC_AUTH_TOKEN
        /\ creds.baseUrl = EnvOf(settings).ANTHROPIC_BASE_URL

Matching(configs, settings) ==
    {i \in 1..Len(configs) : CredentialsEqual(configs[i], settings)}

\* _configName is unset, or no entry has that name.
NoNameMatch(configs, settings) ==
    ~Has(settings._configName) \/ Named(configs, settings) = {}

\* C3: when _configName is unset or matches no entry, getCurrentConfig on
\* the files on disk returns the first entry, nested or flat, whose baseUrl
\* and authToken both equal the settings' credentials.
C3_ValueMatchEitherShape ==
    (/\ pc = "shell"
     /\ NoNameMatch(apiConfigsFile, Doc(settingsFile))
     /\ Matching(apiConfigsFile, Doc(settingsFile)) # {})
    => getCurrentConfig(settingsFile, settingsTorn, apiConfigsFile) =
          Some(apiConfigsFile[Min(Matching(apiConfigsFile, Doc(settingsFile)))])

\* C4: getCurrentConfig returns null when the list is empty, and when no
\* entry has the settings' _configName and no entry holds a baseUrl and an
\* authToken equal to the settings' credentials (absent credential fields
\* included).
C4_NullWhenNoMatch ==
    /\ (pc = "shell" /\ Len(apiConfigsFile) = 0)
       => getCurrentConfig(settingsFile, settingsTorn, apiConfigsFile) = None
    /\ (/\ Resolved
        /\ NoNameMatch(apiConfigs, Doc(settingsFile))
        /\ Matching(apiConfigs, Doc(settingsFile)) = {})
       => currentConfig = None

\* C5: from a fresh installation, whenever getCurrentConfig returns an entry,
\* the settings' authToken and baseUrl equal that entry's.
C5_SettingsMirrorActive ==
    (Resolved /\ Has(currentConfig))
    => /\ EnvOf(Doc(settingsFile)).ANTHROPIC_AUTH_TOKEN =
             extractCredentials(currentConfig[1]).authToken
       /\ EnvOf(Doc(settingsFile)).ANTHROPIC_BASE_URL =
             extractCredentials(currentConfig[1]).baseUrl

\* What the property below requires of one step.
C6_SelectingActiveIsNoOp_Step ==
    pc \in {"list_menu", "list_ordinal"} =>
       /\ settingsFile' = settingsFile
       /\ settingsTorn' = settingsTorn
       /\ pc' \in {"list_ordinal", "switch_confirm", "shell"}
       /\ pc' = "switch_confirm" =>
             ~(Has(currentConfig) /\ apiConfigs[selectedIndex' + 1] = currentConfig[1])
       /\ pc' = "shell" => out' \in {"already_active", "invalid_ordinal"}

\* C6: in the list command, no choice of the entry getCurrentConfig
\* reported leads to the confirmation prompt (the choice ends the command
\* with "already active"), and no step of the selection writes settings.json.
C6_SelectingActiveIsNoOp == [][C6_SelectingActiveIsNoOp_Step]_vars

\* The command has just ended with "already active" while the settings file
\* names an entry of the list.
C6_Witness ==
    /\ pc = "shell"
    /\ out = "already_active"
    /\ Has(settingsFile)
    /\ getCurrentConfig(settingsFile, settingsTorn, apiConfigsFile) # None

\* The nested or the flat shape of the configuration yields both values.
YieldsBoth(config) ==
    \/ /\ Has(config.config)
       /\ Has(config.config[1].env)
       /\ Has(config.config[1].env[1].ANTHROPIC_AUTH_TOKEN)
       /\ Has(config.config[1].env[1].ANTHROPIC_BASE_URL)
    \/ Has(config.authToken) /\ Has(config.baseUrl)

\* What the property below requires of one step.
C7_InvalidShapeNeverWritten_Step ==
    (/\ pc = "switch_confirm"
     /\ ~YieldsBoth(apiConfigs[selectedIndex + 1])
     /\ out' # "cancelled")
    => /\ settingsFile' = settingsFile
       /\ out' = "save_failed"
       /\ exitCode' = 1

\* C7: in the list command, confirming the switch to a configuration from
\* which neither shape yields both an authToken and a baseUrl ends with the
\* error and exit status 1 and does not write settings.json.
C7_InvalidShapeNeverWritten == [][C7_InvalidShapeNeverWritten_Step]_vars

\* C8: settings.json never holds a partially written text: after every step
\* it is the complete previous document or the complete new one.
C8_NoPartialSettingsFile == settingsTorn = FALSE

Names(configs) == {configs[i].name : i \in 1..Len(configs)}

DistinctNames(configs) ==
    \A i, j \in 1..Len(configs) : configs[i].name = configs[j].name => i = j

\* What the property below requires of one step.
C9_AddKeepsNamesDistinct_Step ==
    /\ pc = "add_prompt" =>
         /\ apiConfigsFile' = apiConfigsFile
         /\ pc' = "add_confirm" =>
               /\ newConfig'[1].name \notin Names(apiConfigsFile)
               /\ Truthy(newConfig'[1].name)
    /\ (pc = "add_confirm" /\ out' = "cancelled") => apiConfigsFile' = apiConfigsFile
    /\ (pc = "add_confirm" /\ out' = "added") =>
         /\ Len(apiConfigsFile') = Len(apiConfigsFile) + 1
         /\ SubSeq(apiConfigsFile', 1, Len(apiConfigsFile)) = apiConfigsFile
         /\ apiConfigsFile'[Len(apiConfigsFile')] = newConfig[1]
         /\ Has(newConfig[1].config) /\ Has(newConfig[1].config[1].env)
         /\ ~Has(newConfig[1].authToken) /\ ~Has(newConfig[1].baseUrl)
    /\ DistinctNames(apiConfigsFile) => DistinctNames(apiConfigsFile')

\* C9: the add wizard never accepts an answer whose trimmed name is the
\* name of an entry, and changes nothing until the confirmation; a confirmed
\* add appends one nested-shape entry and keeps the others; no step of any
\* command makes a list of pairwise distinct names lose that property.
C9_AddKeepsNamesDistinct == [][C9_AddKeepsNamesDistinct_Step]_vars

\* The wizard has just rejected a name that an entry already has.
C9_Witness ==
    /\ pc = "add_prompt"
    /\ out = "name_exists"
    /\ Len(apiConfigsFile) >= 1
    /\ DistinctNames(apiConfigsFile)

\* What the property below requires of one step.
C10_RemoveDeletesExactlyOne_Step ==
    pc = "remove_confirm" =>
       /\ pc' = "shell"
       /\ out' \in {"removed", "removed_current", "cancelled"}
       /\ out' = "cancelled" => apiConfigsFile' = apiConfigsFile
       /\ out' \in {"removed", "removed_current"} =>
             LET i == selectedIndex + 1
             IN  /\ i \in 1..Len(apiConfigsFile)
                 /\ Len(apiConfigsFile') = Len(apiConfigsFile) - 1
                 /\ \A k \in 1..(i - 1) : apiConfigsFile'[k] = apiConfigsFile[k]
                 /\ \A k \in i..Len(apiConfigsFile') :
                       apiConfigsFile'[k] = apiConfigsFile[k + 1]

\* C10: a confirmed remove of the entry at ordinal i = selectedIndex + 1
\* leaves the list with that entry deleted and every other entry unchanged
\* and in order; a declined confirmation leaves the list unchanged.
C10_RemoveDeletesExactlyOne == [][C10_RemoveDeletesExactlyOne_Step]_vars

\* A confirmed remove has just ended and left at least two entries.
C10_Witness ==
    /\ pc = "shell"
    /\ out \in {"removed", "removed_current"}
    /\ Len(apiConfigsFile) >= 2

\* The remove command is at its confirmation and the selected entry is the
\* one getCurrentConfig returned.
RemovingActive ==
    /\ pc = "remove_confirm"
    /\ Has(currentConfig)
    /\ apiConfigs[selectedIndex + 1] = currentConfig[1]

\* No entry other than the selected one is matched by the resolver, by name
\* or by credentials, against the settings file as it is.
NoOtherMatch ==
    LET settings == readSettings(settingsFile, settingsTorn)
    IN  \A k \in 1..Len(apiConfigs) :
           k # selectedIndex + 1 =>
              /\ ~(Truthy(settings._configName) /\ nameMatches(apiConfigs[k], settings))
              /\ ~valueMatches(apiConfigs[k], settings)

\* What the property below requires of one step.
C11_RemovedActiveResolvesNull_Step ==
    (RemovingActive /\ out' # "cancelled") =>
       /\ settingsFile' = settingsFile
       /\ settingsTorn' = settingsTorn
       /\ getCurrentConfig(settingsFile', settingsTorn', apiConfigsFile') = None

C11_RemovedActiveResolvesNullUnlessOther_Step ==
    (RemovingActive /\ out' # "cancelled") =>
       /\ settingsFile' = settingsFile
       /\ settingsTorn' = settingsTorn
       /\ NoOtherMatch =>
             getCurrentConfig(settingsFile', settingsTorn', apiConfigsFile') = None

InListWorkflow == pc \in {"list_menu", "list_ordinal", "switch_confirm", "run_prompt"}

\* The selected entry has a non-empty name and no earlier entry of the list
\* has that name.
SelectedIsFirstOfName ==
    LET i == selectedIndex + 1
    IN  /\ Truthy(apiConfigs[i].name)
        /\ \A k \in 1..(i - 1) : apiConfigs[k].name # apiConfigs[i].name

\* What the property below requires of one step.
C13_SwitchResolveRoundTrip_Step ==
    /\ (pc = "switch_confirm" /\ out' = "switched") =>
          getCurrentConfig(settingsFile', settingsTorn', apiConfigsFile')
             = Some(apiConfigs[selectedIndex + 1])
    /\ (InListWorkflow /\ settingsFile' # settingsFile) =>
          (pc = "switch_confirm" /\ out' = "switched")
    /\ (pc = "switch_confirm" /\ out' = "cancelled") =>
          (settingsFile' = settingsFile /\ settingsTorn' = settingsTorn)

\* C13 as stated: after a confirmed switch to list entry C wrote
\* settings.json, getCurrentConfig on the same list returns C, for every
\* list and every prior settings document; and the list command writes
\* settings.json only on a confirmed switch, a declined one leaving it as
\* it was.
C13_SwitchResolveRoundTrip == [][C13_SwitchResolveRoundTrip_Step]_vars

\* What the property below requires of one step.
C13_SwitchResolveRoundTripFirstOfName_Step ==
    /\ (pc = "switch_confirm" /\ out' = "switched" /\ SelectedIsFirstOfName) =>
          getCurrentConfig(settingsFile', settingsTorn', apiConfigsFile')
             = Some(apiConfigs[selectedIndex + 1])
    /\ (InListWorkflow /\ settingsFile' # settingsFile) =>
          (pc = "switch_confirm" /\ out' = "switched")
    /\ (pc = "switch_confirm" /\ out' = "cancelled") =>
          (settingsFile' = settingsFile /\ settingsTorn' = settingsTorn)

\* C13 (amended): after a confirmed switch to list entry C wrote
\* settings.json, getCurrentConfig on the same list returns C whenever C has
\* a non-empty name and is the first entry of the list with that name, for
\* every prior settings document; and the list command writes settings.json
\* only on a confirmed switch, a declined one leaving it as it was.
C13_SwitchResolveRoundTripFirstOfName ==
    [][C13_SwitchResolveRoundTripFirstOfName_Step]_vars

\* A switch has just been written for an entry that is not the first one
\* with its credentials, over settings that named an entry of the list, and
\* getCurrentConfig returns the entry switched to.
C13_Witness ==
    /\ pc = "run_prompt"
    /\ out = "switched"
    /\ SelectedIsFirstOfName
    /\ Has(currentConfig)
    /\ \E k \in 1..selectedIndex :
          valueMatches(apiConfigs[k], Doc(settingsFile))
    /\ getCurrentConfig(settingsFile, settingsTorn, apiConfigsFile)
          = Some(apiConfigs[selectedIndex + 1])

\* The distinct base URLs of the configuration list.
DistinctUrls == {baseUrlOf(apiConfigsFile[i]) : i \in 1..Len(apiConfigsFile)}

\* The probe sequences with the given base URL.
SequencesOf(url) == {k \in 1..Len(probes) : probes[k].baseUrl = url}

\* Every probe sequence has ended: probes is the result list.
AllProbed == \A k \in 1..Len(probes) : probes[k].status # "pending"

\* One sequence is well formed: no attempt follows a reachable one, it has
\* ended reachable exactly when its last attempt is reachable, and ended
\* unhealthy exactly when all the endpoints were tried and none was.
SequenceOK(probe) ==
    LET n == Len(probe.attempts)
    IN  /\ n <= Len(Endpoints)
        /\ \A j \in 1..(n - 1) : ~reachable(probe.attempts[j])
        /\ probe.status = "reachable" <=> (n >= 1 /\ reachable(probe.attempts[n]))
        /\ probe.status = "unhealthy" <=>
              (n = Len(Endpoints) /\ \A j \in 1..n : ~reachable(probe.attempts[j]))

\* What the property below requires of one step.
C12_ProbeAllOncePerUrl_Step ==
    /\ pc' = "health_probe" =>
          /\ \A url \in DistinctUrls' : Cardinality(SequencesOf(url)') = 1
          /\ \A k \in 1..Len(probes') :
                /\ probes'[k].baseUrl \in DistinctUrls'
                /\ SequenceOK(probes'[k])
    /\ (pc = "health_probe" /\ pc' = "health_probe") =>
          /\ Len(probes') = Len(probes)
          /\ Cardinality({k \in 1..Len(probes) : probes'[k] # probes[k]}) = 1
    /\ (pc = "health_probe" /\ pc' = "shell") =>
          /\ out' = "health_table"
          /\ AllProbed
          /\ \A url \in DistinctUrls : Cardinality(SequencesOf(url)) = 1

\* C12: probeAll runs exactly one probe sequence per distinct baseUrl of the
\* list; a sequence stops at its first attempt with status 200-299 or
\* 400-499 (reachable) and is unhealthy when every endpoint gave a status
\* >= 500, a network failure or a timeout; an attempt of one sequence
\* changes no other sequence, and the command ends only with a result for
\* every distinct baseUrl.
C12_ProbeAllOncePerUrl == [][C12_ProbeAllOncePerUrl_Step]_vars

\* Three entries on two base URLs have all been probed: the first URL's
\* sequence ended unhealthy after a status 500, a network failure and a
\* timeout, and the second URL's sequence still ran and ended reachable on
\* its second attempt.
C12_Witness ==
    /\ pc = "health_probe"
    /\ Len(apiConfigsFile) = 3
    /\ Len(probes) = 2
    /\ AllProbed
    /\ probes[1].status = "unhealthy"
    /\ {probes[1].attempts[j].kind : j \in 1..Len(probes[1].attempts)}
          = {"status", "network", "timeout"}
    /\ probes[2].status = "reachable"
    /\ Len(probes[2].attempts) = 2
    /\ probes[2].attempts[2].status = 404

====
